---- MODULE Spec2Model ----
(***************************************************************************)
(* Model of the bank-statement reconciliation pass of                      *)
(* BankStatementToExcel: validate_and_correct_balances                     *)
(* (src/bstpf/pdf_processor.py) and its predecessor                        *)
(* validate_and_annotate_balances (src/present.py).                        *)
(*                                                                         *)
(* Money is counted in whole cents, so the 0.01 tolerance of the code is   *)
(* the integer Tolerance = 1 and "{discrepancy:.2f}" prints the            *)
(* discrepancy exactly.  A cell of a DataFrame is a record                 *)
(*   kind = "null"   None / NaN                                            *)
(*   kind = "float"  a float64 holding num cents                           *)
(*   kind = "str"    a string: txt = "#" spells the number num, any other  *)
(*                   txt is text pd.to_numeric cannot convert              *)
(* A table is [columns, rows]: the column labels in order and the rows     *)
(* (RangeIndex 0..n-1 of the code is 1..n here), each a sequence of cells. *)
(* Column labels are unique.                                               *)
(***************************************************************************)
EXTENDS Integers, Sequences, FiniteSets, TLC

VARIABLES pc, parsed, check_df, validated_df, revalidated_df, annotated_df,
          raw_df, bound_df, cg_df, cg_out, cg_env, cg_run, pdf_env, pdf_run, folders,
          kinds, last_pass

\* the reconciliation pass and its callers
validVars == <<parsed, check_df, validated_df, revalidated_df, annotated_df>>
\* process_pdf between header binding and the pass
sortVars == <<raw_df, bound_df>>
\* generate_excel_report
cgVars == <<cg_df, cg_out, cg_env, cg_run>>
\* one call of process_pdf and what surrounds it
pdfVars == <<pdf_env, pdf_run>>
\* the worker loop
workerVars == <<folders, kinds, last_pass>>

vars == <<pc, parsed, check_df, validated_df, revalidated_df, annotated_df,
          raw_df, bound_df, cg_df, cg_out, cg_env, cg_run, pdf_env, pdf_run, folders,
          kinds, last_pass>>

(* ---------------------------- bounds ----------------------------------- *)
MaxRows == 3
MaxAmt == 1
MaxBal == 1

(* ---------------------------- cells ------------------------------------ *)
Null == [kind |-> "null", txt |-> "", num |-> 0]
Float(n) == [kind |-> "float", txt |-> "", num |-> n]
NumStr(n) == [kind |-> "str", txt |-> "#", num |-> n]
Text(s, n) == [kind |-> "str", txt |-> s, num |-> n]
Junk == Text("abc", 0)

isnull(c) == c.kind = "null"
notnull(c) == ~isnull(c)

\* pd.to_numeric(..., errors='coerce') on one cell
to_numeric(c) ==
  IF c.kind = "float" THEN c
  ELSE IF c.kind = "str" /\ c.txt = "#" THEN Float(c.num)
  ELSE Null

\* .fillna(0) on one cell
fillna0(c) == IF isnull(c) THEN Float(0) ELSE c

Abs(x) == IF x < 0 THEN -x ELSE x

\* the 1-cent tolerance 0.01, in cents
Tolerance == 1

(* ---------------------------- statuses --------------------------------- *)
StatusOK == Text("OK", 0)
StatusEmpty == Text("DataFrame is empty", 0)
StatusMissingPrevious == Text("Skipped: Previous balance is missing", 0)
StatusMissingCurrent == Text("Error: Closing Balance is missing or invalid", 0)
StatusOpeningMissing == Text("Error: Opening Balance is missing or invalid", 0)
StatusMismatch(d) == Text("Mismatch by", d)
StatusKeyError(col) ==
  Text("Critical Error: A required column was not found in the DataFrame -> " \o col, 0)
StatusInvalidBalance == Text("Critical Error: Invalid Closing Balance value", 0)
StatusValidationError(col) == Text("Critical Validation Error: " \o col, 0)

(* ---------------------------- tables ----------------------------------- *)
W == "WithdrawalAmount"
D == "DepositAmount"
CB == "ClosingBalance"
VS == "Validation Status"
X == "Unnamed_1"

NoTable == [columns |-> <<>>, rows |-> <<>>]

NRows(t) == Len(t.rows)
HasCol(t, name) == \E j \in 1..Len(t.columns) : t.columns[j] = name
get_loc(t, name) == CHOOSE j \in 1..Len(t.columns) : t.columns[j] = name
Cell(t, i, name) == t.rows[i][get_loc(t, name)]

\* df.empty: some axis has length 0
Empty(t) == Len(t.rows) = 0 \/ Len(t.columns) = 0

\* df[name] = col, one value per row: in place when the column exists,
\* appended as the last column otherwise
SetColumn(t, name, col) ==
  IF HasCol(t, name)
  THEN [t EXCEPT !.rows = [i \in 1..Len(t.rows) |->
                             [t.rows[i] EXCEPT ![get_loc(t, name)] = col[i]]]]
  ELSE [columns |-> Append(t.columns, name),
        rows |-> [i \in 1..Len(t.rows) |-> Append(t.rows[i], col[i])]]

\* df[name] = scalar
SetScalar(t, name, v) ==
  SetColumn(t, name, [i \in 1..Len(t.rows) |-> v])

(* ------------- validate_and_correct_balances, step by step ------------- *)

\* shift_condition without the isnull() test on the balance
shift_condition_NextOnly(t, i) ==
  notnull(t.rows[i][get_loc(t, CB) + 1])

\* Step 1, the rows the shift applies to:
\* check_df['ClosingBalance'].isnull() & check_df[next_col_name].notnull()
shift_condition(t, i) ==
  LET j == get_loc(t, CB)
  IN  isnull(t.rows[i][j]) /\ notnull(t.rows[i][j + 1])

\* ShiftCorrection without line 71 (the source cell keeps its value)
ShiftCorrection_KeepSource(t) ==
  IF HasCol(t, CB) /\ get_loc(t, CB) < Len(t.columns)
  THEN LET j == get_loc(t, CB)
       IN  [t EXCEPT !.rows = [i \in 1..Len(t.rows) |->
             IF shift_condition(t, i)
             THEN [t.rows[i] EXCEPT ![j] = t.rows[i][j + 1]]
             ELSE t.rows[i]]]
  ELSE t

\* Step 1, column shift correction: when ClosingBalance exists and is not the
\* last column, every row of shift_condition takes the next column's value
\* as its ClosingBalance and None in the next column
ShiftCorrection(t) ==
  IF HasCol(t, CB) /\ get_loc(t, CB) < Len(t.columns)
  THEN LET j == get_loc(t, CB)
       IN  [t EXCEPT !.rows = [i \in 1..Len(t.rows) |->
             IF shift_condition(t, i)
             THEN [t.rows[i] EXCEPT ![j] = t.rows[i][j + 1], ![j + 1] = Null]
             ELSE t.rows[i]]]
  ELSE t

\* Step 2 raises KeyError at the first required column that is absent, in
\* the order the code reads them; "" when all three are there
MissingColumn(t) ==
  IF ~HasCol(t, W) THEN W
  ELSE IF ~HasCol(t, D) THEN D
  ELSE IF ~HasCol(t, CB) THEN CB
  ELSE ""

\* Step 2, data cleaning and type conversion (all three columns present)
TypeConversion(t) ==
  LET n == Len(t.rows)
      w == [i \in 1..n |-> fillna0(to_numeric(Cell(t, i, W)))]
      t1 == SetColumn(t, W, w)
      d == [i \in 1..n |-> fillna0(to_numeric(Cell(t1, i, D)))]
      t2 == SetColumn(t1, D, d)
      b == [i \in 1..n |-> to_numeric(Cell(t2, i, CB))]
  IN  SetColumn(t2, CB, b)

\* LoopStatus with abs(discrepancy) >= 0.01
LoopStatus_GE(t, i) ==
  LET previous_balance == Cell(t, i - 1, CB)
      reported_balance == Cell(t, i, CB)
      discrepancy == previous_balance.num - Cell(t, i, W).num + Cell(t, i, D).num
                     - reported_balance.num
  IN  IF isnull(previous_balance) THEN StatusMissingPrevious
      ELSE IF isnull(reported_balance) THEN StatusMissingCurrent
      ELSE IF Abs(discrepancy) >= Tolerance THEN StatusMismatch(discrepancy)
      ELSE StatusOK

\* LoopStatus with the two missing-data tests in the other order
LoopStatus_CurrentFirst(t, i) ==
  LET previous_balance == Cell(t, i - 1, CB)
      reported_balance == Cell(t, i, CB)
      discrepancy == previous_balance.num - Cell(t, i, W).num + Cell(t, i, D).num
                     - reported_balance.num
  IN  IF isnull(reported_balance) THEN StatusMissingCurrent
      ELSE IF isnull(previous_balance) THEN StatusMissingPrevious
      ELSE IF Abs(discrepancy) > Tolerance THEN StatusMismatch(discrepancy)
      ELSE StatusOK

\* LoopStatus comparing with the last balance that was present, so that a
\* missing balance is an unverifiable previous for every later row
LoopStatus_Cascade(t, i) ==
  LET previous_balance == Cell(t, i - 1, CB)
      reported_balance == Cell(t, i, CB)
      discrepancy == previous_balance.num - Cell(t, i, W).num + Cell(t, i, D).num
                     - reported_balance.num
  IN  IF \E k \in 1..(i - 1) : isnull(Cell(t, k, CB)) THEN StatusMissingPrevious
      ELSE IF isnull(reported_balance) THEN StatusMissingCurrent
      ELSE IF Abs(discrepancy) > Tolerance THEN StatusMismatch(discrepancy)
      ELSE StatusOK

\* Step 4, the body of the loop for one row i > first row; t is coerced
LoopStatus(t, i) ==
  LET previous_balance == Cell(t, i - 1, CB)
      withdrawal == Cell(t, i, W)
      deposit == Cell(t, i, D)
      reported_balance == Cell(t, i, CB)
      calculated_balance == previous_balance.num - withdrawal.num + deposit.num
      discrepancy == calculated_balance - reported_balance.num
  IN  IF isnull(previous_balance) THEN StatusMissingPrevious
      ELSE IF isnull(reported_balance) THEN StatusMissingCurrent
      ELSE IF Abs(discrepancy) > Tolerance THEN StatusMismatch(discrepancy)
      ELSE StatusOK

\* AnnotateRows without Step 5
AnnotateRows_NoStep5(t) ==
  LET st == [i \in 1..Len(t.rows) |-> IF i = 1 THEN StatusOK ELSE LoopStatus(t, i)]
  IN  SetColumn(t, VS, st)

\* AnnotateRows with the early return of present.py: one critical status
\* for every row as soon as a balance is missing
AnnotateRows_Collapse(t) ==
  LET st == [i \in 1..Len(t.rows) |-> IF i = 1 THEN StatusOK ELSE LoopStatus(t, i)]
  IN  IF \E i \in 1..Len(t.rows) : isnull(Cell(t, i, CB))
      THEN SetScalar(t, VS, StatusInvalidBalance)
      ELSE SetColumn(t, VS, st)

\* Steps 3 to 5: every row starts 'OK', the loop runs over rows 2..n, and
\* the first row is marked when its balance is missing
AnnotateRows(t) ==
  LET st == [i \in 1..Len(t.rows) |->
               IF i = 1
               THEN IF isnull(Cell(t, 1, CB)) THEN StatusOpeningMissing ELSE StatusOK
               ELSE LoopStatus(t, i)]
  IN  SetColumn(t, VS, st)

\* KeyErrorResult writing into, and returning, the working copy
KeyErrorResult_OnCopy(df, check, col) == SetScalar(check, VS, StatusKeyError(col))

\* except KeyError: the status is written into df, the caller's table, and
\* df is returned; check_df, the repaired and partly coerced copy, is dropped
KeyErrorResult(df, check, col) == SetScalar(df, VS, StatusKeyError(col))

\* if df.empty: df['Validation Status'] = 'DataFrame is empty'; a scalar
\* assigned to a column is broadcast over the rows there are
EmptyResult(df) == SetScalar(df, VS, StatusEmpty)

\* The whole pass.  ret is the table returned, check the copy check_df as it
\* is after Step 1 (NoTable when the pass returns before copying).  With
\* unique column labels and a RangeIndex, KeyError is the only exception the
\* steps raise on these cells, so the handler of lines 121-125 is not entered.
validate_and_correct_balances(df) ==
  IF Empty(df)
  THEN [ret |-> EmptyResult(df), check |-> NoTable]
  ELSE LET shifted == ShiftCorrection(df)
       IN  IF MissingColumn(shifted) # ""
           THEN [ret |-> KeyErrorResult(df, shifted, MissingColumn(shifted)),
                 check |-> shifted]
           ELSE [ret |-> AnnotateRows(TypeConversion(shifted)), check |-> shifted]

(* ------------- validate_and_annotate_balances (present.py) ------------- *)

\* check_df['ClosingBalance'].isnull().any()
AnyBalanceNull(t) == \E i \in 1..Len(t.rows) : isnull(Cell(t, i, CB))

\* the loop of present.py: no missing-data branches
MismatchStatus(t, i) ==
  LET discrepancy == Cell(t, i - 1, CB).num - Cell(t, i, W).num
                     + Cell(t, i, D).num - Cell(t, i, CB).num
  IN  IF i > 1 /\ Abs(discrepancy) > Tolerance
      THEN StatusMismatch(discrepancy) ELSE StatusOK

\* any exception: a one-row table holding only the error
ErrorFrame(col) ==
  [columns |-> <<VS>>, rows |-> << <<StatusValidationError(col)>> >>]

validate_and_annotate_balances(df) ==
  IF MissingColumn(df) # "" THEN ErrorFrame(MissingColumn(df))
  ELSE LET t == TypeConversion(df)
           st == [i \in 1..Len(t.rows) |-> MismatchStatus(t, i)]
       IN  IF AnyBalanceNull(t) THEN SetScalar(t, VS, StatusInvalidBalance)
           ELSE SetColumn(t, VS, st)

(* ---------------------------- inputs ----------------------------------- *)

\* what the transcription can put in a cell of each column
WithdrawalCells == {Null} \cup {NumStr(a) : a \in 1..MaxAmt}
DepositCells == {Junk} \cup {NumStr(a) : a \in 1..MaxAmt}
BalanceCells == {Null, Junk} \cup {NumStr(b) : b \in 0..MaxBal}
NextCells == {Null, NumStr(MaxBal)}

CellsOf(name) ==
  IF name = W THEN WithdrawalCells
  ELSE IF name = D THEN DepositCells
  ELSE IF name = CB THEN BalanceCells
  ELSE NextCells

\* the header rows the model covers: the columns the prompt asks for, in
\* its order, with and without a spare column to the right of
\* ClosingBalance, and the same with one required column left out
Layouts ==
  { <<W, D, CB, X>>, <<W, D, CB>>,
    <<D, CB, X>>, <<W, CB, X>>, <<W, D>> }

RECURSIVE RowsOf(_)
RowsOf(L) ==
  IF L = <<>> THEN { <<>> }
  ELSE { <<c>> \o r : c \in CellsOf(Head(L)), r \in RowsOf(Tail(L)) }

(* ---------------------------- behaviour -------------------------------- *)

\* the values of the variables a specification does not use
ValidIdle ==
  /\ parsed = NoTable /\ check_df = NoTable /\ validated_df = NoTable
  /\ revalidated_df = NoTable /\ annotated_df = NoTable
SortIdle == raw_df = NoTable /\ bound_df = NoTable
CGIdle == cg_df = NoTable /\ cg_out = <<>> /\ cg_env = <<>> /\ cg_run = <<>>
PdfIdle == pdf_env = <<>> /\ pdf_run = <<>>
WorkerIdle == folders = <<>> /\ kinds = <<>> /\ last_pass = <<>>

Init ==
  /\ pc = "parsed"
  /\ \E L \in Layouts, n \in 0..MaxRows :
       \E rs \in [1..n -> RowsOf(L)] : parsed = [columns |-> L, rows |-> rs]
  /\ check_df = NoTable
  /\ validated_df = NoTable
  /\ revalidated_df = NoTable
  /\ annotated_df = NoTable
  /\ SortIdle /\ CGIdle /\ PdfIdle /\ WorkerIdle

\* process_pdf hands the parsed table to the reconciliation pass
Validate ==
  /\ pc = "parsed"
  /\ LET r == validate_and_correct_balances(parsed)
     IN  /\ validated_df' = r.ret
         /\ check_df' = r.check
  /\ pc' = "validated"
  /\ UNCHANGED <<parsed, revalidated_df, annotated_df>>
  /\ UNCHANGED <<sortVars, cgVars, pdfVars, workerVars>>

\* the pass is run again on the table it returned
Revalidate ==
  /\ pc = "validated"
  /\ LET r == validate_and_correct_balances(validated_df)
     IN  /\ revalidated_df' = r.ret
         /\ check_df' = r.check
  /\ pc' = "revalidated"
  /\ UNCHANGED <<parsed, validated_df, annotated_df>>
  /\ UNCHANGED <<sortVars, cgVars, pdfVars, workerVars>>

\* present.py hands the parsed table to its own pass
Annotate ==
  /\ pc = "parsed"
  /\ annotated_df' = validate_and_annotate_balances(parsed)
  /\ pc' = "annotated"
  /\ UNCHANGED <<parsed, check_df, validated_df, revalidated_df>>
  /\ UNCHANGED <<sortVars, cgVars, pdfVars, workerVars>>

Next == Validate \/ Revalidate \/ Annotate

Spec == Init /\ [][Next]_vars

(* ---------------------------- properties ------------------------------- *)

\* a pass of validate_and_correct_balances has just returned
PassDone == pc \in {"validated", "revalidated"}
\* the table that pass was given, and the table it returned
PassInput == IF pc = "revalidated" THEN validated_df ELSE parsed
PassOutput == IF pc = "revalidated" THEN revalidated_df ELSE validated_df
\* the pass went through the scan: rows, and the three required columns
Scanned == PassDone /\ ~Empty(PassInput) /\ MissingColumn(PassInput) = ""
\* Step 1 had a next column to look at
Shiftable(t) == ~Empty(t) /\ HasCol(t, CB) /\ get_loc(t, CB) < Len(t.columns)

Status(t, i) == Cell(t, i, VS)
Statuses(t) == [i \in 1..NRows(t) |-> Status(t, i)]
Prefix(t, k) == [t EXCEPT !.rows = SubSeq(t.rows, 1, k)]

\* previous - withdrawal + deposit - reported, on the returned table
Discrepancy(t, i) ==
  Cell(t, i - 1, CB).num - Cell(t, i, W).num + Cell(t, i, D).num - Cell(t, i, CB).num
BothPresent(t, i) == notnull(Cell(t, i - 1, CB)) /\ notnull(Cell(t, i, CB))

\* C1: for every row after the first whose balance and whose predecessor's
\* balance are both present, the status is OK iff
\* |prev_balance - withdrawal + deposit - balance| <= 0.01, and otherwise it
\* is the mismatch carrying that discrepancy (expected minus reported).
C1_Theorem ==
  Scanned =>
    \A i \in 2..NRows(PassOutput) :
      BothPresent(PassOutput, i) =>
        /\ Status(PassOutput, i) = StatusOK
             <=> Abs(Discrepancy(PassOutput, i)) <= Tolerance
        /\ Status(PassOutput, i) # StatusOK
             => Status(PassOutput, i) = StatusMismatch(Discrepancy(PassOutput, i))

\* a row exactly at the tolerance is OK and a row beyond it is a mismatch
C1_Witness ==
  /\ pc = "validated" /\ Scanned
  /\ \E i, j \in 2..NRows(validated_df) :
       /\ BothPresent(validated_df, i) /\ BothPresent(validated_df, j)
       /\ Abs(Discrepancy(validated_df, i)) = Tolerance
       /\ Status(validated_df, i) = StatusOK
       /\ Discrepancy(validated_df, j) < -Tolerance
       /\ Status(validated_df, j) = StatusMismatch(Discrepancy(validated_df, j))

\* C2: running the pass again on the table it returned gives every row the
\* Validation Status the first run gave it, for any input table.
C2_Idempotent ==
  pc = "revalidated" =>
    /\ NRows(revalidated_df) = NRows(validated_df)
    /\ \A i \in 1..NRows(validated_df) :
         Status(revalidated_df, i) = Status(validated_df, i)

\* C3: the column-shift repair leaves a row whose ClosingBalance cell is
\* present exactly as it was, whatever the next column holds; a row it does
\* change is changed by one move, and no row is left for a second repair.
C3_Theorem ==
  PassDone /\ Shiftable(PassInput) =>
    LET j == get_loc(PassInput, CB)
    IN  /\ NRows(check_df) = NRows(PassInput)
        /\ \A i \in 1..NRows(PassInput) :
             LET r == PassInput.rows[i]
             IN  /\ notnull(r[j]) => check_df.rows[i] = r
                 /\ check_df.rows[i] # r =>
                      check_df.rows[i] = [r EXCEPT ![j] = r[j + 1], ![j + 1] = Null]
                 /\ ~shift_condition(check_df, i)

\* one row with a present balance next to a present cell, one row repaired
C3_Witness ==
  /\ pc = "validated" /\ Shiftable(parsed)
  /\ \E i, k \in 1..NRows(parsed) :
       LET j == get_loc(parsed, CB)
       IN  /\ notnull(parsed.rows[i][j]) /\ notnull(parsed.rows[i][j + 1])
           /\ check_df.rows[i] = parsed.rows[i]
           /\ check_df.rows[k] # parsed.rows[k]

\* C4: every row whose ClosingBalance cell is missing while the next
\* column's cell is present has, after the repair, that value as its balance
\* and a missing source cell; the repair precedes the scan, which sees the
\* moved value as the row's balance.
C4_Theorem ==
  PassDone /\ Shiftable(PassInput) =>
    LET j == get_loc(PassInput, CB)
    IN  \A i \in 1..NRows(PassInput) :
          LET r == PassInput.rows[i]
          IN  isnull(r[j]) /\ notnull(r[j + 1]) =>
                /\ check_df.rows[i][j] = r[j + 1]
                /\ isnull(check_df.rows[i][j + 1])
                /\ Scanned =>
                     /\ Cell(PassOutput, i, CB) = to_numeric(r[j + 1])
                     /\ notnull(to_numeric(r[j + 1])) =>
                          Status(PassOutput, i)
                            \notin {StatusMissingCurrent, StatusOpeningMissing}

\* a repaired row after the first that the scan finds consistent
C4_Witness ==
  /\ pc = "validated" /\ Scanned /\ Shiftable(parsed)
  /\ \E i \in 2..NRows(parsed) :
       LET j == get_loc(parsed, CB)
       IN  /\ isnull(parsed.rows[i][j]) /\ notnull(parsed.rows[i][j + 1])
           /\ parsed.columns[j + 1] = X
           /\ Cell(validated_df, i, CB) = to_numeric(parsed.rows[i][j + 1])
           /\ Status(validated_df, i) = StatusOK

\* C5: the first row of a non-empty table is compared to nothing: its
\* status is the opening-balance error when its balance is missing and OK
\* otherwise, whatever its amounts and the other rows are.
C5_Theorem ==
  Scanned =>
    Status(PassOutput, 1) =
      IF isnull(Cell(PassOutput, 1, CB)) THEN StatusOpeningMissing ELSE StatusOK

\* a first row with a movement and a balance the next row contradicts
C5_Witness ==
  /\ pc = "validated" /\ Scanned /\ NRows(validated_df) >= 2
  /\ Cell(validated_df, 1, W).num > 0
  /\ notnull(Cell(validated_df, 1, CB))
  /\ Status(validated_df, 1) = StatusOK
  /\ Status(validated_df, 2) \notin {StatusOK, StatusMissingCurrent}

\* C6: for every row after the first: a missing previous balance gives
\* MISSING_PREVIOUS, also when the row's own balance is missing; otherwise a
\* missing own balance gives MISSING_CURRENT; the arithmetic verdicts occur
\* only when both balances are present.
C6_Theorem ==
  Scanned =>
    \A i \in 2..NRows(PassOutput) :
      LET prev == Cell(PassOutput, i - 1, CB)
          cur == Cell(PassOutput, i, CB)
      IN  /\ isnull(prev) => Status(PassOutput, i) = StatusMissingPrevious
          /\ notnull(prev) /\ isnull(cur) => Status(PassOutput, i) = StatusMissingCurrent
          /\ Status(PassOutput, i) \notin {StatusMissingPrevious, StatusMissingCurrent}
               => notnull(prev) /\ notnull(cur)

\* a row where both balances are missing, and a row missing only its own
C6_Witness ==
  /\ pc = "validated" /\ Scanned
  /\ \E i, k \in 2..NRows(validated_df) :
       /\ isnull(Cell(validated_df, i - 1, CB)) /\ isnull(Cell(validated_df, i, CB))
       /\ Status(validated_df, i) = StatusMissingPrevious
       /\ Status(validated_df, k) = StatusMissingCurrent

\* C7: a missing balance changes no status before its row (the statuses of
\* the first k rows are those the pass gives the first k rows alone), and a
\* row after the first is MISSING_PREVIOUS exactly when the balance of the
\* row just before it is missing, so a present balance re-anchors the chain.
C7_Theorem ==
  pc = "validated" /\ Scanned =>
    /\ \A k \in 1..NRows(parsed) :
         Statuses(validate_and_correct_balances(Prefix(parsed, k)).ret)
           = SubSeq(Statuses(validated_df), 1, k)
    /\ \A i \in 2..NRows(validated_df) :
         Status(validated_df, i) = StatusMissingPrevious
           <=> isnull(Cell(validated_df, i - 1, CB))

\* balance missing at a row, present at the next, and the row after that is
\* checked against it
C7_Witness ==
  /\ pc = "validated" /\ Scanned
  /\ \E i \in 1..(NRows(validated_df) - 2) :
       /\ isnull(Cell(validated_df, i, CB))
       /\ notnull(Cell(validated_df, i + 1, CB))
       /\ Status(validated_df, i + 1) = StatusMissingPrevious
       /\ Status(validated_df, i + 2) \in {StatusOK, StatusMissingCurrent}

\* C8: given a table with zero rows the pass returns a table in which the
\* 'DataFrame is empty' status can be read.
C8_EmptyStatusObservable ==
  pc = "validated" /\ NRows(parsed) = 0 =>
    \E i \in 1..NRows(validated_df) : Status(validated_df, i) = StatusEmpty

\* every balance of the returned table is missing
AllBalancesMissing(t) == \A i \in 1..NRows(t) : isnull(Cell(t, i, CB))

\* C9 as stated: when every closing balance is unreadable the result is one
\* critical annotation for the document, not a status per row.
C9_Collapses ==
  pc = "validated" /\ Scanned /\ AllBalancesMissing(validated_df) =>
    \A i \in 1..NRows(validated_df) :
      Status(validated_df, i) = Status(validated_df, 1)

\* C9 amended: when every closing balance is unreadable,
\* validate_and_correct_balances still annotates row by row (the first row
\* the opening-balance error, every later row MISSING_PREVIOUS); it is
\* validate_and_annotate_balances of present.py that gives every row the one
\* critical 'Invalid Closing Balance value' annotation.
C9_Theorem ==
  /\ pc = "validated" /\ Scanned /\ AllBalancesMissing(validated_df) =>
       \A i \in 1..NRows(validated_df) :
         Status(validated_df, i) =
           IF i = 1 THEN StatusOpeningMissing ELSE StatusMissingPrevious
  /\ pc = "annotated" /\ ~Empty(parsed) /\ MissingColumn(parsed) = ""
       /\ AllBalancesMissing(annotated_df) =>
       \A i \in 1..NRows(annotated_df) :
         Status(annotated_df, i) = StatusInvalidBalance

\* three rows, no balance readable
C9_Witness ==
  /\ pc = "validated" /\ Scanned /\ AllBalancesMissing(validated_df)
  /\ NRows(validated_df) >= 3
  /\ Status(validated_df, 3) = StatusMissingPrevious

\* C10: when a required column is absent from a non-empty table the pass
\* returns the table it was given, every cell as it was, with one more
\* column in which every row holds the critical status naming an absent
\* required column.
C10_Theorem ==
  pc = "validated" /\ ~Empty(parsed) /\ MissingColumn(parsed) # "" =>
    /\ validated_df.columns = Append(parsed.columns, VS)
    /\ NRows(validated_df) = NRows(parsed)
    /\ \E c \in {W, D, CB} :
         /\ ~HasCol(parsed, c)
         /\ \A i \in 1..NRows(parsed) :
              validated_df.rows[i] = Append(parsed.rows[i], StatusKeyError(c))

\* DepositAmount is absent and Step 1 had repaired a row of the copy
C10_Witness ==
  /\ pc = "validated" /\ ~Empty(parsed) /\ MissingColumn(parsed) = D
  /\ check_df # parsed
  /\ NRows(validated_df) >= 2

(* ------------- process_pdf: sort by date, then the pass ---------------- *)

MaxDate == 2

DATE == "Date"
\* a string spelling the day k day-first; a datetime64 value; the text
\* strftime('%d/%m/%y') writes for it
DateStr(k) == Text("d/m/Y", k)
Timestamp(k) == [kind |-> "datetime", txt |-> "", num |-> k]
Formatted(k) == Text("%d/%m/%y", k)

\* pd.to_datetime(..., errors='coerce', dayfirst=True) on one cell
to_datetime(c) ==
  IF c.kind = "datetime" THEN c
  ELSE IF c.kind = "str" /\ c.txt = "d/m/Y" THEN Timestamp(c.num)
  ELSE Null

\* .dt.strftime('%d/%m/%y') on one cell
strftime(c) == IF c.kind = "datetime" THEN Formatted(c.num) ELSE Null

\* merge of two sorted runs that takes the right row first on equal dates
MergeRightFirst(j, a, b) ==
  LET RECURSIVE go(_, _)
      go(x, y) ==
        IF x = <<>> THEN y
        ELSE IF y = <<>> THEN x
        ELSE IF Head(x)[j].num < Head(y)[j].num
             THEN <<Head(x)>> \o go(Tail(x), y)
             ELSE <<Head(y)>> \o go(x, Tail(y))
  IN  go(a, b)

\* merge of two sorted runs, the left row first on equal dates (stable)
Merge(j, a, b) ==
  LET RECURSIVE go(_, _)
      go(x, y) ==
        IF x = <<>> THEN y
        ELSE IF y = <<>> THEN x
        ELSE IF Head(x)[j].num <= Head(y)[j].num
             THEN <<Head(x)>> \o go(Tail(x), y)
             ELSE <<Head(y)>> \o go(x, Tail(y))
  IN  go(a, b)

\* sort_values(by='Date', kind='mergesort') on the rows; j is the Date column
RECURSIVE MergeSort(_, _)
MergeSort(j, rows) ==
  IF Len(rows) <= 1 THEN rows
  ELSE LET h == Len(rows) \div 2
       IN  Merge(j, MergeSort(j, SubSeq(rows, 1, h)),
                    MergeSort(j, SubSeq(rows, h + 1, Len(rows))))

\* dropna(subset=['Date']) on the rows
DropNaT(j, rows) ==
  LET keep(r) == notnull(r[j]) IN SelectSeq(rows, keep)

\* lines 203-207: parse the dates, drop the rows without one, sort, write
\* the dates back as text, renumber the rows
SortByDate(t) ==
  LET j == get_loc(t, DATE)
      t1 == SetColumn(t, DATE, [i \in 1..Len(t.rows) |-> to_datetime(Cell(t, i, DATE))])
      rows2 == MergeSort(j, DropNaT(j, t1.rows))
  IN  [columns |-> t.columns,
       rows |-> [i \in 1..Len(rows2) |-> [rows2[i] EXCEPT ![j] = strftime(rows2[i][j])]]]

DateCells == {Null, Junk} \cup {DateStr(k) : k \in 1..MaxDate}

\* the rows of the sort model: any date, one deposit, any balance
SortRows ==
  { <<dt, NumStr(0), NumStr(MaxAmt), b>> : dt \in DateCells, b \in BalanceCells }

SortInit ==
  /\ pc = "bound"
  /\ \E n \in 0..MaxRows :
       \E rs \in [1..n -> SortRows] :
         bound_df = [columns |-> <<DATE, W, D, CB>>, rows |-> rs]
  /\ raw_df = NoTable
  /\ ValidIdle /\ CGIdle /\ PdfIdle /\ WorkerIdle

\* process_pdf, lines 202-211: the table is sorted and handed to the pass
SortAndValidate ==
  /\ pc = "bound"
  /\ LET df == SortByDate(bound_df)
         r == validate_and_correct_balances(df)
     IN  /\ parsed' = df
         /\ validated_df' = r.ret
         /\ check_df' = r.check
  /\ pc' = "validated"
  /\ UNCHANGED <<revalidated_df, annotated_df, sortVars, cgVars, pdfVars, workerVars>>

SortNext == SortAndValidate

SpecSort == SortInit /\ [][SortNext]_vars

\* the rows of t whose date, once parsed, is the day k
RowsOfDay(t, k) ==
  LET j == get_loc(t, DATE)
      on(r) == to_datetime(r[j]) = Timestamp(k)
  IN  SelectSeq(t.rows, on)
\* the rows of the sorted table written for the day k
SortedRowsOfDay(t, k) ==
  LET j == get_loc(t, DATE)
      on(r) == r[j] = Formatted(k)
  IN  SelectSeq(t.rows, on)
\* a row with its date cell blanked
SansDate(t, r) == [r EXCEPT ![get_loc(t, DATE)] = Null]
SansDates(t, rows) == [i \in 1..Len(rows) |-> SansDate(t, rows[i])]

\* C11: the table handed to the pass holds exactly the rows whose date
\* parses (for each day, the rows of that day, in their original order),
\* in non-decreasing date order, and every row of the result has a
\* validation status.
C11_Theorem ==
  pc = "validated" /\ bound_df # NoTable =>
    LET j == get_loc(parsed, DATE)
    IN  /\ \A i \in 1..NRows(parsed) : \E k \in 1..MaxDate : parsed.rows[i][j] = Formatted(k)
        /\ \A i \in 2..NRows(parsed) : parsed.rows[i - 1][j].num <= parsed.rows[i][j].num
        /\ \A k \in 1..MaxDate :
             SansDates(parsed, SortedRowsOfDay(parsed, k))
               = SansDates(bound_df, RowsOfDay(bound_df, k))
        /\ NRows(validated_df) = NRows(parsed)
        /\ HasCol(validated_df, VS)
        /\ \A i \in 1..NRows(validated_df) :
             /\ notnull(Status(validated_df, i))
             /\ validated_df.rows[i][j] = parsed.rows[i][j]

\* a row without a date was dropped, the rows were out of order, and two
\* rows of one day with different balances kept their order
C11_Witness ==
  /\ pc = "validated" /\ NRows(bound_df) = 3 /\ NRows(parsed) = 2
  /\ to_datetime(Cell(bound_df, 1, DATE)) = Timestamp(1)
  /\ isnull(to_datetime(Cell(bound_df, 2, DATE)))
  /\ to_datetime(Cell(bound_df, 3, DATE)) = Timestamp(1)
  /\ Cell(bound_df, 1, CB) # Cell(bound_df, 3, CB)
  /\ Cell(parsed, 1, CB) = Cell(bound_df, 1, CB)
  /\ Cell(parsed, 2, CB) = Cell(bound_df, 3, CB)

(* ------------- generate_excel_report (cg_pdf_processor.py) ------------- *)
(* A capital-gains frame is a sequence of rows, each a record of cells by  *)
(* column name; index label i is position i.  Dates are day numbers, the   *)
(* day CutoffDay being 2018-02-01.  Amounts are whole cents, which         *)
(* .round(2) leaves as they are.  Every column the report reads exists.    *)

MaxCGRows == 2
MaxCG == 2

\* pd.to_datetime('2018-02-01') as a day number
CutoffDay == 2
\* is_long_term = HoldingPeriod > 365
EquityLongTermDays == 365
\* HoldingPeriod <= 1095
DebtLongTermDays == 1095

EQUITY_MF == Text("EQUITY_MF", 0)
DEBT_MF_INDEXED == Text("DEBT_MF_INDEXED", 0)
DEBT_MF_SLAB_RATE == Text("DEBT_MF_SLAB_RATE", 0)
OTHER_NON_EQUITY == Text("OTHER_NON_EQUITY", 0)
VDA == Text("VDA", 0)
Categories == {EQUITY_MF, DEBT_MF_INDEXED, DEBT_MF_SLAB_RATE, OTHER_NON_EQUITY, VDA}

Max2(a, b) == IF a >= b THEN a ELSE b
Min2(a, b) == IF a <= b THEN a ELSE b

\* .round(2) of an amount in whole cents
Round2(x) == x

\* lines 183-189 on one row: every numeric column is coerced and its missing
\* values filled with 0; the date columns are parsed
CleanRow(r) ==
  [r EXCEPT !.Sale_Consideration = fillna0(to_numeric(@)),
            !.Net_Sale_Consideration = fillna0(to_numeric(@)),
            !.Actual_Cost_of_Acquisition = fillna0(to_numeric(@)),
            !.Indexed_Cost = fillna0(to_numeric(@)),
            !.FMV_on_31012018 = fillna0(to_numeric(@)),
            !.Date_of_Purchase = to_datetime(@),
            !.Date_of_Transfer = to_datetime(@)]

\* line 195: (Date_of_Transfer - Date_of_Purchase).dt.days, NaN when a date
\* is NaT
Calculated_Holding_Days(r) ==
  IF notnull(r.Date_of_Transfer) /\ notnull(r.Date_of_Purchase)
  THEN Float(r.Date_of_Transfer.num - r.Date_of_Purchase.num)
  ELSE Null

\* line 193
Calculated_Gain_Loss(r) ==
  Round2(r.Net_Sale_Consideration.num - r.Actual_Cost_of_Acquisition.num)

\* a comparison with NaN or NaT is False
GreaterThan(c, n) == notnull(c) /\ c.num > n
LessThan(c, n) == notnull(c) /\ c.num < n
AtMost(c, n) == notnull(c) /\ c.num <= n

\* is_long_term with >= 365
is_long_term_GE(r) == notnull(Calculated_Holding_Days(r))
                      /\ Calculated_Holding_Days(r).num >= EquityLongTermDays

\* line 217
is_long_term(r) == GreaterThan(Calculated_Holding_Days(r), EquityLongTermDays)

\* line 218
purchase_before_cutoff(r) == LessThan(r.Date_of_Purchase, CutoffDay)

\* lines 219-223
calculate_deductible_cost(r) ==
  IF ~is_long_term(r) \/ ~purchase_before_cutoff(r)
  THEN Round2(r.Actual_Cost_of_Acquisition.num)
  ELSE LET lower_of_fmv_and_sale ==
             Min2(r.FMV_on_31012018.num, r.Net_Sale_Consideration.num)
       IN  Round2(Max2(r.Actual_Cost_of_Acquisition.num, lower_of_fmv_and_sale))

\* EquityRow with the long-term gain taken over the actual cost
EquityRow_ActualCost(i, r) ==
  [name |-> i,
   deductible |-> calculate_deductible_cost(r),
   stcg |-> IF ~is_long_term(r)
            THEN Round2(r.Net_Sale_Consideration.num - r.Actual_Cost_of_Acquisition.num)
            ELSE 0,
   ltcg |-> IF is_long_term(r)
            THEN Round2(r.Net_Sale_Consideration.num - r.Actual_Cost_of_Acquisition.num)
            ELSE 0]

\* lines 216-226: the columns added to a row of 'Gains on STT paid shares'
EquityRow(i, r) ==
  LET gain_loss == Round2(r.Net_Sale_Consideration.num - calculate_deductible_cost(r))
  IN  [name |-> i,
       deductible |-> calculate_deductible_cost(r),
       stcg |-> IF ~is_long_term(r)
                THEN Round2(r.Net_Sale_Consideration.num - r.Actual_Cost_of_Acquisition.num)
                ELSE 0,
       ltcg |-> IF is_long_term(r) THEN gain_loss ELSE 0]

\* DebtRow whose short-term test looks at the holding period only
DebtRow_HoldingOnly(i, r) ==
  LET h == Calculated_Holding_Days(r)
      gain == Round2(r.Net_Sale_Consideration.num - r.Actual_Cost_of_Acquisition.num)
      ltcg_indexed == Round2(r.Net_Sale_Consideration.num - r.Indexed_Cost.num)
  IN  [name |-> i,
       stg |-> IF AtMost(h, DebtLongTermDays) THEN gain ELSE 0,
       ltcg |-> IF GreaterThan(h, DebtLongTermDays) THEN ltcg_indexed ELSE 0]

\* lines 237-246: the columns added to a row of 'Non-Equity & Debt Funds'
DebtRow(i, r) ==
  LET h == Calculated_Holding_Days(r)
      gain == Round2(r.Net_Sale_Consideration.num - r.Actual_Cost_of_Acquisition.num)
      ltcg_indexed == Round2(r.Net_Sale_Consideration.num - r.Indexed_Cost.num)
      st_gain_conditions ==
        AtMost(h, DebtLongTermDays) \/ r.Transaction_Type = DEBT_MF_SLAB_RATE
      ltcg_conditions ==
        GreaterThan(h, DebtLongTermDays) /\ r.Transaction_Type # DEBT_MF_SLAB_RATE
  IN  [name |-> i,
       stg |-> IF st_gain_conditions THEN gain ELSE 0,
       ltcg |-> IF ltcg_conditions THEN ltcg_indexed ELSE 0]

\* VdaRow without .clip(lower=0)
VdaRow_NoClip(i, r) ==
  [name |-> i,
   income |-> Round2(r.Sale_Consideration.num - r.Actual_Cost_of_Acquisition.num)]

\* line 255: the column added to a row of 'Virtual Digital Assets'
VdaRow(i, r) ==
  [name |-> i,
   income |-> Max2(Round2(r.Sale_Consideration.num - r.Actual_Cost_of_Acquisition.num), 0)]

\* df[df['Transaction_Type'] ...]: the index labels of the rows of the types
RECURSIVE Select(_, _, _)
Select(df, types, i) ==
  IF i > Len(df) THEN <<>>
  ELSE (IF df[i].Transaction_Type \in types THEN <<i>> ELSE <<>>)
       \o Select(df, types, i + 1)

\* the report: the cleaned frame and the rows of the three category sheets;
\* a sheet is written only when it has rows.  An empty frame gives no report
NoReport == [written |-> FALSE, df |-> <<>>, equity |-> <<>>, debt |-> <<>>, vda |-> <<>>]

generate_excel_report(df0) ==
  IF Len(df0) = 0 THEN NoReport
  ELSE LET df == [i \in 1..Len(df0) |-> CleanRow(df0[i])]
           eq == Select(df, {EQUITY_MF}, 1)
           de == Select(df, {DEBT_MF_INDEXED, DEBT_MF_SLAB_RATE, OTHER_NON_EQUITY}, 1)
           vd == Select(df, {VDA}, 1)
       IN  [written |-> TRUE,
            df |-> df,
            equity |-> [k \in 1..Len(eq) |-> EquityRow(eq[k], df[eq[k]])],
            debt |-> [k \in 1..Len(de) |-> DebtRow(de[k], df[de[k]])],
            vda |-> [k \in 1..Len(vd) |-> VdaRow(vd[k], df[vd[k]])]]

(* inputs: per category, the cells the category's sheet reads vary *)
CGRow(ty, p, t, sale, net, cost, idx, fmv) ==
  [Transaction_Type |-> ty, Date_of_Purchase |-> p, Date_of_Transfer |-> t,
   Sale_Consideration |-> sale, Net_Sale_Consideration |-> net,
   Actual_Cost_of_Acquisition |-> cost, Indexed_Cost |-> idx, FMV_on_31012018 |-> fmv]

PurchaseCells == {Junk, DateStr(CutoffDay - 1), DateStr(CutoffDay)}
EquityTransferCells == {Null, DateStr(CutoffDay + EquityLongTermDays - 1),
                        DateStr(CutoffDay + EquityLongTermDays)}
DebtTransferCells == {Null, DateStr(CutoffDay + DebtLongTermDays)}
NetCells == {NumStr(a) : a \in 1..MaxCG}
CostCells == {Null} \cup {NumStr(a) : a \in 1..MaxCG}
SaleCells == {Junk} \cup {NumStr(a) : a \in 1..MaxCG}

EquityInputs ==
  { CGRow(EQUITY_MF, p, t, Null, net, cost, Null, fmv) :
      p \in PurchaseCells, t \in EquityTransferCells, net \in NetCells,
      cost \in CostCells, fmv \in NetCells }
DebtInputs ==
  { CGRow(ty, p, t, Null, NumStr(MaxCG), cost, idx, Null) :
      ty \in {DEBT_MF_INDEXED, DEBT_MF_SLAB_RATE, OTHER_NON_EQUITY},
      p \in PurchaseCells, t \in DebtTransferCells,
      cost \in CostCells, idx \in {Null, NumStr(1)} }
VdaInputs ==
  { CGRow(VDA, Null, Null, sale, Null, cost, Null, Null) :
      sale \in SaleCells, cost \in CostCells }
\* a Transaction_Type cell that is none of the five names, or blank
UnclassifiedInputs ==
  { CGRow(ty, Null, Null, NumStr(1), NumStr(1), NumStr(1), Null, Null) :
      ty \in {Null, Text("Equity", 0)} }
CGInputs == EquityInputs \cup DebtInputs \cup VdaInputs \cup UnclassifiedInputs

CGInit ==
  /\ pc = "extracted"
  /\ \E n \in 0..MaxCGRows : cg_df \in [1..n -> CGInputs]
  /\ cg_out = <<>>
  /\ cg_env = <<>> /\ cg_run = <<>>
  /\ ValidIdle /\ SortIdle /\ PdfIdle /\ WorkerIdle

\* process_cg, line 291
GenerateReport ==
  /\ pc = "extracted"
  /\ cg_out' = generate_excel_report(cg_df)
  /\ pc' = "reported"
  /\ UNCHANGED <<cg_df, cg_env, cg_run, validVars, sortVars, pdfVars, workerVars>>

CGNext == GenerateReport

SpecCG == CGInit /\ [][CGNext]_vars

(* ---------------- properties of generate_excel_report ------------------ *)

Reported == pc = "reported" /\ cg_out.written
\* the cleaned row behind a sheet row, and its holding period
Cleaned(o) == cg_out.df[o.name]
Holding(o) == Calculated_Holding_Days(Cleaned(o))
Net(o) == Cleaned(o).Net_Sale_Consideration.num
Actual(o) == Cleaned(o).Actual_Cost_of_Acquisition.num
SheetRows(sheet) == {sheet[k] : k \in 1..Len(sheet)}
Unconvertible(c) == isnull(to_numeric(c))

\* C12 (as stated, for the capital-gains path): a cost cell that cannot be
\* read as a number stays the missing marker in the cleaned frame, never 0.
C12_CostStaysMissing ==
  Reported =>
    \A i \in 1..Len(cg_df) :
      /\ Unconvertible(cg_df[i].Actual_Cost_of_Acquisition)
           => isnull(cg_out.df[i].Actual_Cost_of_Acquisition)
      /\ Unconvertible(cg_df[i].Indexed_Cost)
           => isnull(cg_out.df[i].Indexed_Cost)

\* C13 (as stated): every row of the frame is reported on exactly one
\* category sheet.
C13_EveryRowOnOneSheet ==
  Reported =>
    \A i \in 1..Len(cg_df) :
      Cardinality({o \in SheetRows(cg_out.equity) : o.name = i})
      + Cardinality({o \in SheetRows(cg_out.debt) : o.name = i})
      + Cardinality({o \in SheetRows(cg_out.vda) : o.name = i}) = 1

C15_Theorem ==
  Reported =>
    \A o \in SheetRows(cg_out.equity) :
      IF Holding(o).kind = "float" /\ Holding(o).num > 365
      THEN o.ltcg = Net(o) - o.deductible /\ o.stcg = 0
      ELSE o.stcg = Net(o) - Actual(o) /\ o.ltcg = 0

C15_Witness ==
  /\ Reported
  /\ \E o \in SheetRows(cg_out.equity) :
       /\ Holding(o) = Float(EquityLongTermDays + 1)
       /\ o.deductible # Actual(o)
       /\ o.ltcg = Net(o) - o.deductible /\ o.ltcg # 0
  /\ \E o \in SheetRows(cg_out.equity) :
       /\ Holding(o) = Float(EquityLongTermDays)
       /\ o.stcg = Net(o) - Actual(o) /\ o.stcg # 0

\* C16 (as stated): a DEBT_MF_INDEXED or OTHER_NON_EQUITY row held at most
\* 1095 days has short-term gain net - actual cost and long-term gain 0; in
\* every other case, an undetermined holding period included, it has
\* long-term gain net - indexed cost and short-term gain 0.
C16_IndexedGain ==
  Reported =>
    \A o \in SheetRows(cg_out.debt) :
      Cleaned(o).Transaction_Type \in {DEBT_MF_INDEXED, OTHER_NON_EQUITY} =>
        IF Holding(o).kind = "float" /\ Holding(o).num <= 1095
        THEN o.stg = Net(o) - Actual(o) /\ o.ltcg = 0
        ELSE o.ltcg = Net(o) - Cleaned(o).Indexed_Cost.num /\ o.stg = 0

\* C17: a DEBT_MF_SLAB_RATE row has short-term gain net - actual cost and
\* long-term gain 0, whatever its holding period, undetermined included.
C17_Theorem ==
  Reported =>
    \A o \in SheetRows(cg_out.debt) :
      Cleaned(o).Transaction_Type = DEBT_MF_SLAB_RATE =>
        o.stg = Net(o) - Actual(o) /\ o.ltcg = 0

C17_Witness ==
  /\ Reported
  /\ \E o \in SheetRows(cg_out.debt) :
       /\ Cleaned(o).Transaction_Type = DEBT_MF_SLAB_RATE
       /\ Holding(o) = Float(DebtLongTermDays + 1)
       /\ o.stg # 0 /\ Net(o) # Cleaned(o).Indexed_Cost.num
  /\ \E o \in SheetRows(cg_out.debt) :
       /\ Cleaned(o).Transaction_Type = DEBT_MF_SLAB_RATE
       /\ Holding(o) = Null
       /\ o.stg # 0

\* C18: on the VDA sheet the income is max(0, sale - actual cost), never
\* negative.
C18_Theorem ==
  Reported =>
    \A o \in SheetRows(cg_out.vda) :
      LET d == Cleaned(o).Sale_Consideration.num - Actual(o)
      IN  /\ o.income >= 0
          /\ o.income = IF d > 0 THEN d ELSE 0

C18_Witness ==
  /\ Reported
  /\ \E o \in SheetRows(cg_out.vda) :
       Cleaned(o).Sale_Consideration.num < Actual(o) /\ o.income = 0
  /\ \E o \in SheetRows(cg_out.vda) :
       Cleaned(o).Sale_Consideration.num > Actual(o) /\ o.income > 0

(* ------------------- process_pdf (pdf_processor.py) -------------------- *)
(* One run of process_pdf against an environment fixed beforehand: the     *)
(* page count of the document, and what each outside call does when it is  *)
(* reached (upload, first and second transcription, deletion of the        *)
(* uploaded file, the text returned, the write of the spreadsheet).        *)
(* A returned string is the sequence of its parts: "Success" is            *)
(* <<"Success">>, f"ERROR: {e}" is <<"ERROR: ", e>>.                        *)

\* current_idx = 0 if page_count >= 6 else 1
ModelThreshold == 6

models == <<"gemini-2.5-flash", "gemini-2.5-flash-lite">>

Success == <<"Success">>
ErrorString(e) == <<"ERROR: ", e>>
BeginsWithERROR(s) == Len(s) > 0 /\ s[1] = "ERROR: "

PageCounts == {0, ModelThreshold - 1, ModelThreshold}
CallOutcomes == {"ok", "429", "500"}
\* the text of the response: none, only blank lines, a table without a Date
\* header, a table with one
Texts == {"empty", "blank", "no_date", "good"}

PdfEnvs ==
  [pages : PageCounts, upload : {"ok", "fail"}, call1 : CallOutcomes,
   call2 : CallOutcomes, delete : {"ok", "fail"}, text : Texts,
   excel : {"ok", "fail"}]

\* the run so far: how it ended, the value returned or raised, the models
\* called in order, and what it did to the outside
Run(outcome, value, calls, uploaded, deleted, written) ==
  [outcome |-> outcome, value |-> value, calls |-> calls,
   uploaded |-> uploaded, deleted |-> deleted, written |-> written]

\* lines 131-218, the body of the outer try
process_pdf_body(env) ==
  LET current_idx == IF env.pages >= ModelThreshold THEN 0 ELSE 1
      first == models[current_idx + 1]
      \* line 169: '429' or '404' in str(e) is true of every exception
      second == models[(IF current_idx = 0 THEN 1 ELSE 0) + 1]
      calls == IF env.call1 = "ok" THEN <<first>> ELSE <<first, second>>
  IN
  IF env.pages = 0
  THEN Run("return",
           ErrorString("Cannot process file with 0 pages or encrypted file."),
           <<>>, FALSE, FALSE, FALSE)
  ELSE IF env.upload # "ok"
  THEN Run("raise", "upload", <<>>, FALSE, FALSE, FALSE)
  ELSE IF env.call1 # "ok" /\ env.call2 # "ok"
  THEN Run("raise", env.call2, calls, TRUE, FALSE, FALSE)
  ELSE IF env.delete # "ok"
  THEN Run("raise", "delete", calls, TRUE, FALSE, FALSE)
  ELSE IF env.text = "empty"
  THEN Run("return", ErrorString("Model returned an empty response."),
           calls, TRUE, TRUE, FALSE)
  ELSE IF env.text = "blank"
  THEN Run("raise", "No columns to parse from file", calls, TRUE, TRUE, FALSE)
  ELSE IF env.text = "no_date"
  THEN Run("raise", "'Date'", calls, TRUE, TRUE, FALSE)
  ELSE IF env.excel # "ok"
  THEN Run("raise", "to_excel", calls, TRUE, TRUE, FALSE)
  ELSE Run("return", Success, calls, TRUE, TRUE, TRUE)

\* process_pdf without the handler of lines 220-222
process_pdf_NoHandler(env) == process_pdf_body(env)

\* lines 128-222: whatever the body raises is returned as f"ERROR: {e}"
process_pdf(env) ==
  LET b == process_pdf_body(env)
  IN  IF b.outcome = "raise"
      THEN [b EXCEPT !.outcome = "return", !.value = ErrorString(b.value)]
      ELSE b

PdfInit ==
  /\ pc = "called"
  /\ pdf_env \in PdfEnvs
  /\ pdf_run = <<>>
  /\ ValidIdle /\ SortIdle /\ CGIdle /\ WorkerIdle

ProcessPdf ==
  /\ pc = "called"
  /\ pdf_run' = process_pdf(pdf_env)
  /\ pc' = "returned"
  /\ UNCHANGED <<pdf_env, validVars, sortVars, cgVars, workerVars>>

PdfNext == ProcessPdf

SpecPdf == PdfInit /\ [][PdfNext]_vars

\* C20: process_pdf never raises.  It returns a string beginning "ERROR",
\* having written no spreadsheet, when the document has zero pages, when the
\* transcription is empty, when both transcription attempts fail and when
\* the text cannot be parsed; it returns "Success" only with the spreadsheet
\* written.
C20_Theorem ==
  pc = "returned" =>
    /\ pdf_run.outcome = "return"
    /\ pdf_run.value = Success \/ BeginsWithERROR(pdf_run.value)
    /\ ( \/ pdf_env.pages = 0
         \/ pdf_env.text \in {"empty", "blank", "no_date"}
         \/ pdf_env.call1 # "ok" /\ pdf_env.call2 # "ok" )
       => BeginsWithERROR(pdf_run.value)
    /\ BeginsWithERROR(pdf_run.value) => ~pdf_run.written
    /\ pdf_run.value = Success => pdf_run.written

\* both attempts were made and failed, and the error came back as a string
C20_Witness ==
  /\ pc = "returned"
  /\ pdf_env.pages > 0 /\ pdf_env.upload = "ok"
  /\ pdf_env.call1 # "ok" /\ pdf_env.call2 # "ok"
  /\ Len(pdf_run.calls) = 2
  /\ pdf_run.outcome = "return"
  /\ BeginsWithERROR(pdf_run.value) /\ ~pdf_run.written

(* ---------------------- main (main_worker.py) -------------------------- *)
(* The PDFs are numbered in the order sorted() gives their names.  folders *)
(* says where each file is, kinds what the file is: "good" (process_pdf    *)
(* returns "Success"), "bad" (process_pdf returns an error string, every   *)
(* time) or "large" (over FILE_SIZE_LIMIT_BYTES).                          *)

MaxFiles == 3

Files == 1..MaxFiles
Kinds == {"good", "bad", "large"}

\* line 47
pending_files == {f \in Files : folders[f] = "input"}
First(S) == CHOOSE f \in S : \A g \in S : f <= g

\* line 74, by the kind of the file
ResultOf(kind) == IF kind = "good" THEN Success ELSE ErrorString("failed")
\* line 77: "ERROR" in result
ContainsERROR(s) == \E i \in 1..Len(s) : s[i] = "ERROR: "

\* what the last pass of the loop picked up (0: nothing) and how it went
LastPass(filename, outcome) == [filename |-> filename, outcome |-> outcome]

WorkerInit ==
  /\ pc = "worker"
  /\ kinds \in [Files -> Kinds]
  /\ folders \in [Files -> {"absent", "input"}]
  /\ last_pass = LastPass(0, "none")
  /\ ValidIdle /\ SortIdle /\ CGIdle /\ PdfIdle

\* what can raise in a pass: nothing, the move to In_Process (line 68), the
\* processing (line 74), the move to Processed (line 83)
Faults == {"none", "move_in", "process", "move_out"}

\* shutil.move of a file to a folder
Move(fs, f, folder) == [fs EXCEPT ![f] = folder]

\* the state a pass leaves its try block in (lines 46-89): the folders, the
\* file processing_path names (0: None) and how the block ended
TryResult(fs, processing_path, outcome) ==
  [folders |-> fs, processing_path |-> processing_path, outcome |-> outcome]

TryBlock(fs, filename, kind, fault) ==
  IF kind = "large"
  THEN TryResult(Move(fs, filename, "rejected"), 0, "rejected")
  ELSE IF fault = "move_in"
  THEN TryResult(fs, filename, "exception")
  ELSE LET moved == Move(fs, filename, "in_process")
       IN  IF fault = "process"
           THEN TryResult(moved, filename, "exception")
           ELSE IF ContainsERROR(ResultOf(kind))
           THEN TryResult(moved, filename, "failure")
           ELSE IF fault = "move_out"
           THEN TryResult(moved, filename, "exception")
           ELSE TryResult(Move(moved, filename, "processed"), 0, "success")

\* a finally block that moves nothing
FinallyBlock_Nothing(fs, processing_path) == fs

\* lines 91-95: if processing_path and os.path.exists(processing_path)
FinallyBlock(fs, processing_path) ==
  IF processing_path # 0 /\ fs[processing_path] = "in_process"
  THEN Move(fs, processing_path, "input")
  ELSE fs

\* lines 45-97, one pass of the while loop
Pass(fault) ==
  /\ pc = "worker"
  /\ IF pending_files = {}
     THEN folders' = folders /\ last_pass' = LastPass(0, "idle")
     ELSE LET filename == First(pending_files)
              t == TryBlock(folders, filename, kinds[filename], fault)
          IN  /\ folders' = FinallyBlock(t.folders, t.processing_path)
              /\ last_pass' = LastPass(filename, t.outcome)
  /\ UNCHANGED <<pc, kinds, validVars, sortVars, cgVars, pdfVars>>

\* a pass in which nothing outside the loop fails
Iterate == Pass("none")

\* a pass in which a move or the processing raises
IterateFaulty == \E fault \in Faults \ {"none"} : Pass(fault)

WorkerNext == Iterate

\* the loop never stops iterating
SpecWorkerFair == WorkerInit /\ [][WorkerNext]_vars /\ WF_vars(Iterate)

\* C19 (as stated): a document that keeps failing does not hold back the
\* others: every good PDF pending in the input folder is eventually
\* processed.
C19_OthersProcessed ==
  \A f \in Files :
    (folders[f] = "input" /\ kinds[f] = "good") ~> (folders[f] = "processed")

(* ------------------- process_cg (cg_pdf_processor.py) ------------------ *)
(* One run of process_cg against an environment fixed beforehand, as for   *)
(* process_pdf.  What process_capital_gains_report returns is a record:    *)
(* type "str" with the string, or type "DataFrame" with the frame.         *)

cg_models == <<"gemini-2.5-flash", "gemini-2.5-flash-lite-preview-06-17">>

\* the text of the response: nothing a table can be read from, a header
\* line alone, a table without the columns of the report, a table with them
CGTexts == {"empty", "header_only", "wrong_header", "good"}

\* the tables a good response is read into
GoodFrames == {<<r>> : r \in VdaInputs}

CGEnvs ==
  [pages : PageCounts, upload : {"ok", "fail"}, call1 : CallOutcomes,
   call2 : CallOutcomes, delete : {"ok", "fail"}, text : CGTexts,
   frame : GoodFrames, cgr : {"ok", "fail"}]

StrValue(s) == [type |-> "str", str |-> s, columns_ok |-> FALSE, rows |-> <<>>]
FrameValue(ok, rows) == [type |-> "DataFrame", str |-> <<>>, columns_ok |-> ok, rows |-> rows]

\* lines 117-165, the body of the outer try
process_capital_gains_report_body(env) ==
  LET current_idx == IF env.pages >= ModelThreshold THEN 0 ELSE 1
      first == cg_models[current_idx + 1]
      \* line 139: '429' or '404' in str(e) is true of every exception
      second == cg_models[(IF current_idx = 0 THEN 1 ELSE 0) + 1]
      calls == IF env.call1 = "ok" THEN <<first>> ELSE <<first, second>>
  IN
  IF env.pages = 0
  THEN Run("return",
           StrValue(ErrorString("Cannot process file with 0 pages or encrypted file.")),
           <<>>, FALSE, FALSE, FALSE)
  ELSE IF env.upload # "ok"
  THEN Run("raise", "upload", <<>>, FALSE, FALSE, FALSE)
  ELSE IF env.call1 # "ok" /\ env.call2 # "ok"
  THEN Run("raise", env.call2, calls, TRUE, FALSE, FALSE)
  ELSE IF env.delete # "ok"
  THEN Run("raise", "delete", calls, TRUE, FALSE, FALSE)
  ELSE IF env.text = "empty"
  \* both read_csv calls fail: line 162
  THEN Run("return", FrameValue(FALSE, <<>>), calls, TRUE, TRUE, FALSE)
  ELSE IF env.text = "header_only"
  THEN Run("return", FrameValue(TRUE, <<>>), calls, TRUE, TRUE, FALSE)
  ELSE IF env.text = "wrong_header"
  THEN Run("return", FrameValue(FALSE, env.frame), calls, TRUE, TRUE, FALSE)
  ELSE Run("return", FrameValue(TRUE, env.frame), calls, TRUE, TRUE, FALSE)

\* lines 105-168: whatever the body raises is returned as f"ERROR: {e}"
process_capital_gains_report(env) ==
  LET b == process_capital_gains_report_body(env)
  IN  IF b.outcome = "raise"
      THEN [b EXCEPT !.outcome = "return", !.value = StrValue(ErrorString(b.value))]
      ELSE b

\* how process_cg ended, what it returned or raised, the report it wrote
\* and the extraction it worked on
CGRun(outcome, value, report, extraction) ==
  [outcome |-> outcome, value |-> value, report |-> report,
   extraction |-> extraction]

\* lines 270-295
process_cg(env) ==
  LET x == process_capital_gains_report(env)
      master_df == x.value
  IN
  \* line 282: a str has no to_excel
  IF master_df.type = "str"
  THEN CGRun("raise", "AttributeError", NoReport, x)
  ELSE IF env.cgr # "ok"
  THEN CGRun("raise", "to_excel", NoReport, x)
  \* line 284: master_df is not None, always; line 291
  ELSE IF Len(master_df.rows) = 0
  THEN CGRun("return", "SUCCESS", NoReport, x)
  ELSE IF ~master_df.columns_ok
  THEN CGRun("raise", "KeyError", NoReport, x)
  ELSE CGRun("return", "SUCCESS", generate_excel_report(master_df.rows), x)

ProcessCGInit ==
  /\ pc = "cg_called"
  /\ cg_env \in CGEnvs
  /\ cg_run = <<>>
  /\ cg_df = NoTable /\ cg_out = <<>>
  /\ ValidIdle /\ SortIdle /\ PdfIdle /\ WorkerIdle

ProcessCG ==
  /\ pc = "cg_called"
  /\ cg_run' = process_cg(cg_env)
  /\ pc' = "cg_returned"
  /\ UNCHANGED <<cg_df, cg_out, cg_env, validVars, sortVars, pdfVars, workerVars>>

ProcessCGNext == ProcessCG

SpecProcessCG == ProcessCGInit /\ [][ProcessCGNext]_vars

\* the extraction gave no valid data: a failure string or an empty table
NoValidData(x) == x.value.type = "str" \/ Len(x.value.rows) = 0

\* C21 (as stated): process_cg never lets a crash through; it returns
\* "ERROR", writing no report, when the extraction gave no valid data, and
\* "SUCCESS" only with the report written.
C21_ErrorOrSuccess ==
  pc = "cg_returned" =>
    /\ cg_run.outcome = "return"
    /\ NoValidData(cg_run.extraction)
         => cg_run.value = "ERROR" /\ ~cg_run.report.written
    /\ cg_run.value = "SUCCESS" => cg_run.report.written

(* ------------- the transcription calls of process_pdf ------------------ *)

\* the error texts the retry is meant for
Transient == {"429", "404"}

\* C22 (as stated): the primary model is called once; the other model is
\* called, once, only when the first call failed with 429 or 404 in its
\* error text; no more than two calls are made for a document.
C22_RetryOnlyOnTransient ==
  pc = "returned" =>
    LET calls == pdf_run.calls
        primary == models[(IF pdf_env.pages >= ModelThreshold THEN 0 ELSE 1) + 1]
    IN  /\ Len(calls) <= 2
        /\ Len(calls) >= 1 => calls[1] = primary
        /\ Len(calls) = 2 => pdf_env.call1 \in Transient /\ calls[2] # primary

\* C25 (as stated): a document that was uploaded is deleted from the
\* provider before process_pdf returns, on every path (the provider
\* accepting the deletion).
C25_UploadDeleted ==
  pc = "returned" =>
    (pdf_run.uploaded /\ pdf_env.delete = "ok" => pdf_run.deleted)

(* ------------- process_pdf: binding the header (lines 180-200) --------- *)
(* read_csv(header=None, names=col_0..) gives a table of NCols columns in  *)
(* which a missing or empty field is NaN; its first row holds the header.  *)
(* NCols stands for the 10 of the code.                                    *)

NCols == 3
MaxDataRows == 2

col_names == [j \in 1..NCols |-> "col_" \o ToString(j - 1)]

\* line 185: the first row, NaN replaced by 'Unnamed'
header_list(t) ==
  [j \in 1..Len(t.columns) |->
     IF isnull(t.rows[1][j]) THEN "Unnamed" ELSE t.rows[1][j].txt]

\* new_columns with every 'Unnamed' named Unnamed_1
RECURSIVE new_columns_NoCount(_, _, _)
new_columns_NoCount(h, j, unnamed_count) ==
  IF j > Len(h) THEN <<>>
  ELSE IF h[j] = "Unnamed"
       THEN <<"Unnamed_1">> \o new_columns_NoCount(h, j + 1, unnamed_count + 1)
       ELSE <<h[j]>> \o new_columns_NoCount(h, j + 1, unnamed_count)

\* lines 187-195, from header cell j on
RECURSIVE new_columns(_, _, _)
new_columns(h, j, unnamed_count) ==
  IF j > Len(h) THEN <<>>
  ELSE IF h[j] = "Unnamed"
       THEN <<"Unnamed_" \o ToString(unnamed_count)>>
            \o new_columns(h, j + 1, unnamed_count + 1)
       ELSE <<h[j]>> \o new_columns(h, j + 1, unnamed_count)

\* lines 185-199
BindHeader(t) ==
  [columns |-> new_columns(header_list(t), 1, 1), rows |-> Tail(t.rows)]

HeaderCells == {Null, Text("Date", 0), Text(CB, 0), Text("Unnamed", 0)}
DataCells == {Null, NumStr(1)}

BindInit ==
  /\ pc = "read"
  /\ \E h \in [1..NCols -> HeaderCells] : \E n \in 0..MaxDataRows :
       \E rs \in [1..n -> [1..NCols -> DataCells]] :
         raw_df = [columns |-> col_names, rows |-> <<h>> \o rs]
  /\ bound_df = NoTable
  /\ ValidIdle /\ CGIdle /\ PdfIdle /\ WorkerIdle

Bind ==
  /\ pc = "read"
  /\ bound_df' = BindHeader(raw_df)
  /\ pc' = "bound"
  /\ UNCHANGED <<raw_df, validVars, cgVars, pdfVars, workerVars>>

BindNext == Bind

SpecBind == BindInit /\ [][BindNext]_vars

Bound == pc = "bound" /\ raw_df # NoTable
\* how many of the first j header cells are renamed
RECURSIVE Blanks(_, _)
Blanks(h, j) ==
  IF j = 0 THEN 0
  ELSE Blanks(h, j - 1) + (IF h[j] \in {Null, Text("Unnamed", 0)} THEN 1 ELSE 0)
EmptyColumn(t, j) == \A i \in 1..Len(t.rows) : isnull(t.rows[i][j])

\* C23 (as stated): row 0 becomes the header and leaves the data, the k-th
\* blank header cell is named Unnamed_k, every other header name is kept,
\* and no column that is empty in every row remains.
C23_EmptyColumnsDropped ==
  Bound =>
    /\ Len(bound_df.rows) = Len(raw_df.rows) - 1
    /\ \A j \in 1..Len(bound_df.columns) : ~EmptyColumn(bound_df, j)

\* C23 (amended): row 0 becomes the header and leaves the data; the k-th
\* header cell that is blank, or is the text 'Unnamed', is named Unnamed_k,
\* every other header name is kept; no column is dropped, the columns empty
\* in every row included.
C23_Theorem ==
  Bound =>
    LET h == raw_df.rows[1]
    IN  /\ bound_df.rows = [i \in 1..(Len(raw_df.rows) - 1) |-> raw_df.rows[i + 1]]
        /\ Len(bound_df.columns) = Len(raw_df.columns)
        /\ \A j \in 1..Len(raw_df.columns) :
             bound_df.columns[j] =
               IF h[j] \in {Null, Text("Unnamed", 0)}
               THEN "Unnamed_" \o ToString(Blanks(h, j))
               ELSE h[j].txt

\* a named header between two blank ones, and a column empty in every row
\* that is still there
C23_Witness ==
  /\ Bound
  /\ bound_df.columns = <<"Unnamed_1", CB, "Unnamed_2">>
  /\ Len(bound_df.rows) = MaxDataRows
  /\ EmptyColumn(bound_df, 3) /\ ~EmptyColumn(bound_df, 2)

(* ------------------- main: the In_Process folder ----------------------- *)

WorkerFaultNext == Iterate \/ IterateFaulty

SpecWorker == WorkerInit /\ [][WorkerFaultNext]_vars

====
